---------------------------- MODULE Spec2Model ----------------------------
(***************************************************************************)
(* A model of src/src/core/controller.py: the Vector3D algebra, the        *)
(* PhysicsObject record and the DecimalPhysicsController, with Python's    *)
(* decimal arithmetic modelled as correctly rounded decimal floating       *)
(* point (round-half-even to Prec significant digits).                     *)
(***************************************************************************)
EXTENDS Integers, Sequences, FiniteSets, TLC

(***************************************************************************)
(* Bounds of the model.                                                    *)
(***************************************************************************)
\* Significant digits of the decimal context (getcontext().prec, 50 in the
\* source, scaled down so that coefficients fit 32-bit integers).
Prec == 6
\* Significant digits kept by float(): a float keeps fewer digits than the
\* decimal context does (about 16 against 50 in the source).
FloatPrec == 3
\* Calls made on the controller over one behaviour.
MaxCalls == 4

(***************************************************************************)
(* Decimal numbers: [c |-> coefficient, e |-> exponent] stands for         *)
(* c * 10^e.  Every value is kept normalised (no trailing zero in c, zero  *)
(* is [c |-> 0, e |-> 0]), so that record equality is Decimal's numeric    *)
(* ==.  The arithmetic below gives the exact result rounded half-even to   *)
(* Prec digits, as decimal's context does for +, -, *, /.                  *)
(***************************************************************************)
RECURSIVE Pow10(_)
Pow10(k) == IF k <= 0 THEN 1 ELSE 10 * Pow10(k - 1)

RECURSIVE Digits(_)
Digits(n) == IF n = 0 THEN 0 ELSE 1 + Digits(n \div 10)

AbsInt(n) == IF n < 0 THEN -n ELSE n
Sign(n) == IF n < 0 THEN -1 ELSE 1
Min(m, n) == IF m < n THEN m ELSE n

RECURSIVE Norm(_, _)
Norm(c, e) ==
    IF c = 0 THEN [c |-> 0, e |-> 0]
    ELSE IF c % 10 = 0 THEN Norm(c \div 10, e + 1)
    ELSE [c |-> c, e |-> e]

\* Half-even: round the quotient q up on a remainder r above half, or equal
\* to it with something below (sticky) or with q odd.
RoundUp(q, r, half, sticky) ==
    r > half \/ (r = half /\ (sticky \/ q % 2 = 1))

\* sign * n * 10^e with its last d digits rounded away.
RoundDrop(sign, n, e, sticky, d) ==
    IF d <= 0 THEN Norm(sign * n, e)
    ELSE IF RoundUp(n \div Pow10(d), n % Pow10(d), 5 * Pow10(d - 1), sticky)
    THEN Norm(sign * (n \div Pow10(d) + 1), e + d)
    ELSE Norm(sign * (n \div Pow10(d)), e + d)

\* n * 10^e with n >= 0, plus a non-zero fraction below n's unit when
\* sticky, rounded half-even to p significant digits; sign is 1 or -1.
RoundTo(sign, n, e, sticky, p) == RoundDrop(sign, n, e, sticky, Digits(n) - p)

DecRound(sign, n, e, sticky) == RoundTo(sign, n, e, sticky, Prec)

Zero == [c |-> 0, e |-> 0]
Dec(c, e) == Norm(c, e)

DecNeg(a) == [c |-> -a.c, e |-> a.e]
DecAbs(a) == [c |-> AbsInt(a.c), e |-> a.e]

\* a + b.  The operand of the larger exponent (a) is scaled up by s, to at
\* most Prec + 2 digits; the other is cut by t digits, and what it loses is
\* a sticky fraction, which cannot reach the rounded digit.
AddSigned(sA, M, e, st) ==
    IF M >= 0 THEN DecRound(sA, M, e, st) ELSE DecRound(-sA, -M, e, FALSE)

AddAligned(sA, A, sB, B, st, e) ==
    AddSigned(sA, IF sA = sB THEN A + B
                  ELSE IF st THEN A - B - 1 ELSE A - B, e, st)

AddShift(a, b, s, t) ==
    AddAligned(Sign(a.c), AbsInt(a.c) * Pow10(s), Sign(b.c),
               IF t >= Prec THEN 0 ELSE AbsInt(b.c) \div Pow10(t),
               IF t >= Prec THEN TRUE ELSE AbsInt(b.c) % Pow10(t) # 0,
               a.e - s)

AddScale(a, b, k, room) == AddShift(a, b, Min(k, room), k - Min(k, room))

\* a.e >= b.e, a.c # 0, b.c # 0
DecAddOrdered(a, b) ==
    AddScale(a, b, a.e - b.e, Prec + 2 - Digits(AbsInt(a.c)))

DecAdd(a, b) ==
    IF a.c = 0 THEN b
    ELSE IF b.c = 0 THEN a
    ELSE IF a.e >= b.e THEN DecAddOrdered(a, b)
    ELSE DecAddOrdered(b, a)

DecSub(a, b) == DecAdd(a, DecNeg(b))

\* Digits an integer power is computed with beyond Prec: those of the
\* exponent, 2, and two more.
PowGuard == Digits(2) + 2

\* a * b: the exact product of the coefficients is formed in two limbs of
\* eight digits (hi, lo) from the halves of the operands, then rounded.
MulRound(sg, e, hi, lo, t) ==
    IF t <= 0 THEN DecRound(sg, hi * Pow10(8) + lo, e, FALSE)
    ELSE DecRound(sg, hi * Pow10(8 - t) + lo \div Pow10(t), e + t,
                  lo % Pow10(t) # 0)

\* The second rounding of a power: q with the guard digits g below it.
PowSecond(q, g, e) ==
    IF RoundUp(q, g, 5 * Pow10(PowGuard - 1), FALSE) THEN Norm(q + 1, e)
    ELSE Norm(q, e)

\* The first rounding of a power, to Prec + PowGuard digits: the guard
\* digits g are rounded by the rest r, of u - PowGuard digits.
PowFirst(q, g, r, e, u) ==
    IF RoundUp(g, r, 5 * Pow10(u - PowGuard - 1), FALSE)
    THEN PowSecond(q, g + 1, e)
    ELSE PowSecond(q, g, e)

\* A power whose exact value hi * 10^8 + lo has u digits more than Prec:
\* it is rounded to Prec + PowGuard digits, and that again to Prec.
PowRound(e, hi, lo, u) ==
    IF u <= PowGuard THEN MulRound(1, e, hi, lo, u - 2)
    ELSE PowFirst(hi * Pow10(8 - u) + lo \div Pow10(u),
                  (lo % Pow10(u)) \div Pow10(u - PowGuard),
                  lo % Pow10(u - PowGuard), e + u, u)

MulDigits(sg, e, hi, lo, nd, pow) ==
    IF pow THEN PowRound(e, hi, lo, nd - Prec)
    ELSE MulRound(sg, e, hi, lo, nd - (Prec + 2))

MulCount(sg, e, hi, lo, pow) ==
    MulDigits(sg, e, hi, lo, IF hi = 0 THEN Digits(lo) ELSE 8 + Digits(hi),
              pow)

MulCarry(sg, e, p2, p1, l0, pow) ==
    MulCount(sg, e, p2 + p1 \div Pow10(4) + l0 \div Pow10(8), l0 % Pow10(8),
             pow)

MulParts(sg, e, p0, p1, p2, pow) ==
    MulCarry(sg, e, p2, p1, p0 + (p1 % Pow10(4)) * Pow10(4), pow)

MulSplit(sg, e, xh, xl, yh, yl, pow) ==
    MulParts(sg, e, xl * yl, xh * yl + xl * yh, xh * yh, pow)

DecMul(a, b) ==
    IF a.c = 0 \/ b.c = 0 THEN Zero
    ELSE MulSplit(Sign(a.c) * Sign(b.c), a.e + b.e,
                  AbsInt(a.c) \div Pow10(4), AbsInt(a.c) % Pow10(4),
                  AbsInt(b.c) \div Pow10(4), AbsInt(b.c) % Pow10(4), FALSE)

\* a ** 2.  decimal computes an integer power in a context of
\* PowGuard more digits and rounds the result again to Prec digits.
DecPow2(a) ==
    IF a.c = 0 THEN Zero
    ELSE MulSplit(1, a.e + a.e,
                  AbsInt(a.c) \div Pow10(4), AbsInt(a.c) % Pow10(4),
                  AbsInt(a.c) \div Pow10(4), AbsInt(a.c) % Pow10(4), TRUE)

\* Long division: quotient digits are produced until Prec + 1 of them are
\* significant or the remainder is zero.
RECURSIVE DivDigits(_, _, _, _)
DivDigits(q, r, den, e) ==
    IF r = 0 \/ Digits(q) >= Prec + 1 THEN [q |-> q, r |-> r, e |-> e]
    ELSE DivDigits(10 * q + (10 * r) \div den, (10 * r) % den, den, e - 1)

DivRound(sg, d) == DecRound(sg, d.q, d.e, d.r # 0)

\* a / b for b # 0.
DecDiv(a, b) ==
    IF a.c = 0 THEN Zero
    ELSE DivRound(Sign(a.c) * Sign(b.c),
                  DivDigits(AbsInt(a.c) \div AbsInt(b.c),
                            AbsInt(a.c) % AbsInt(b.c), AbsInt(b.c),
                            a.e - b.e))

\* Numeric comparison a < b, by the sign of a - b (the rounding of a
\* non-zero difference never reaches zero).
DecLt(a, b) == DecSub(a, b).c < 0

\* float(d): the conversion keeps only FloatPrec significant digits.
Float(d) == RoundTo(Sign(d.c), AbsInt(d.c), d.e, FALSE, FloatPrec)

(***************************************************************************)
(* PhysicsConstants and Vector3D.                                          *)
(***************************************************************************)
\* GRAVITATIONAL_CONSTANT = Decimal('6.67430E-11')
GRAVITATIONAL_CONSTANT == Dec(667430, -16)

Vector3D(x, y, z) == [x |-> x, y |-> y, z |-> z]
ZeroVector == Vector3D(Zero, Zero, Zero)

\* Componentwise v + w, v - w, v * k and v / k, each component rounded.
VecAdd(v, w) == Vector3D(DecAdd(v.x, w.x), DecAdd(v.y, w.y), DecAdd(v.z, w.z))
VecSub(v, w) == Vector3D(DecSub(v.x, w.x), DecSub(v.y, w.y), DecSub(v.z, w.z))
VecScale(v, k) == Vector3D(DecMul(v.x, k), DecMul(v.y, k), DecMul(v.z, k))
VecDiv(v, k) == Vector3D(DecDiv(v.x, k), DecDiv(v.y, k), DecDiv(v.z, k))

dot_product(v, w) ==
    DecAdd(DecAdd(DecMul(v.x, w.x), DecMul(v.y, w.y)), DecMul(v.z, w.z))

\* The stopping distance of the square root: 10 ** -(prec - 5).
TolGap == 5
Tolerance == Dec(1, -(Prec - TolGap))

\* The Newton loop of _decimal_sqrt from approximation x.  seen holds the
\* approximations already visited: meeting one again means the loop runs
\* forever, which is reported as done = FALSE.
RECURSIVE SqrtLoop(_, _, _)
SqrtNext(value, x, x_new, seen) ==
    IF DecLt(DecAbs(DecSub(x_new, x)), Tolerance)
    THEN [done |-> TRUE, v |-> x_new]
    ELSE IF x_new \in seen THEN [done |-> FALSE, v |-> x_new]
    ELSE SqrtLoop(value, x_new, seen \cup {x_new})

SqrtLoop(value, x, seen) ==
    SqrtNext(value, x, DecDiv(DecAdd(x, DecDiv(value, x)), Dec(2, 0)), seen)

\* _decimal_sqrt(value) for value >= 0.
decimal_sqrt(value) ==
    IF value.c = 0 THEN [done |-> TRUE, v |-> Zero]
    ELSE SqrtLoop(value, value, {value})

sum_squares_without_z(v) == DecAdd(DecPow2(v.x), DecPow2(v.y))

\* self.x ** 2 + self.y ** 2 + self.z ** 2
sum_squares(v) == DecAdd(DecAdd(DecPow2(v.x), DecPow2(v.y)), DecPow2(v.z))

\* magnitude(): [done, v]; done = FALSE when the square root never returns.
magnitude(v) == decimal_sqrt(sum_squares(v))

\* normalize(): [status, v].
NormalizeBy(v, mag) ==
    IF ~mag.done THEN [status |-> "hang", v |-> ZeroVector]
    ELSE IF mag.v = Zero THEN [status |-> "ValueError", v |-> ZeroVector]
    ELSE [status |-> "ok", v |-> VecDiv(v, mag.v)]

normalize(v) == NormalizeBy(v, magnitude(v))

(***************************************************************************)
(* The state.  bodies and vecs are the caller's heap: the PhysicsObject    *)
(* instances and the Vector3D instances their position and velocity       *)
(* fields refer to (an update in place is seen through every reference).  *)
(* A body's acceleration is held by value: reset_accelerations gives each *)
(* body a fresh vector before anything writes to one.                     *)
(***************************************************************************)
VARIABLES
    bodies,              \* ObjId -> [name, mass, position, velocity, acceleration]
    vecs,                \* VecId -> Vector3D
    objects,             \* self.objects: the registered ObjIds in insertion order
    time_step,           \* self.time_step
    current_time,        \* self.current_time
    total_energy,        \* self.total_energy
    simulation_history,  \* self.simulation_history
    result,              \* the last call: [op, arg, status, ret]
    completed,           \* number of step() calls that returned
    ticks,               \* the time_step of every advance of current_time
                         \* since __init__ or the last reset_simulation
    calls,               \* number of calls made on the controller
    engines,             \* the DecimalPhysicsEngine instances: [precision]
    context_prec,        \* getcontext().prec, one for the whole process
    sim                  \* the SchrodingerCatSimulation: [time, dt, history,
                         \* temperature, time_elapsed, current_power]

vars == <<bodies, vecs, objects, time_step, current_time, total_energy,
          simulation_history, result, completed, ticks, calls,
          engines, context_prec, sim>>

\* The state of the decimal_physics_controller package, which the
\* controller's methods never touch.
package == <<engines, context_prec, sim>>

\* The controller and the heap as one value, for the operators below.
World == [bodies |-> bodies, vecs |-> vecs, objects |-> objects,
          time_step |-> time_step, current_time |-> current_time,
          total_energy |-> total_energy,
          simulation_history |-> simulation_history]

Position(W, o) == W.vecs[W.bodies[o].position]
Velocity(W, o) == W.vecs[W.bodies[o].velocity]

\* The names that are keys of self.objects.
Names(objs) == {bodies[objs[i]].name : i \in 1..Len(objs)}

\* Index of name in the mapping, 0 when absent.
IndexOf(objs, name) ==
    IF \E i \in 1..Len(objs) : bodies[objs[i]].name = name
    THEN CHOOSE i \in 1..Len(objs) : bodies[objs[i]].name = name
    ELSE 0

RemoveAtSwapping(s, i) ==
    [k \in 1..(Len(s) - 1) |-> IF k = i THEN s[Len(s)] ELSE s[k]]

\* del self.objects[name]: the other entries keep their order.
RemoveAt(s, i) == [k \in 1..(Len(s) - 1) |-> IF k < i THEN s[k] ELSE s[k + 1]]

(***************************************************************************)
(* Forces and energies.                                                    *)
(***************************************************************************)
\* The last lines of calculate_gravitational_force: the unit displacement
\* scaled by the force magnitude.
ForceAlong(direction, force_magnitude) ==
    IF direction.status # "ok" THEN direction
    ELSE [status |-> "ok", v |-> VecScale(direction.v, force_magnitude)]

\* calculate_gravitational_force once displacement and distance are known.
ForceAt(displacement, distance, m1, m2) ==
    IF ~distance.done THEN [status |-> "hang", v |-> ZeroVector]
    ELSE IF distance.v = Zero THEN [status |-> "ValueError", v |-> ZeroVector]
    ELSE ForceAlong(normalize(displacement),
                    DecDiv(DecMul(DecMul(GRAVITATIONAL_CONSTANT, m1), m2),
                           DecPow2(distance.v)))

ForceOver(displacement, m1, m2) ==
    ForceAt(displacement, magnitude(displacement), m1, m2)

\* calculate_gravitational_force(obj1, obj2): [status, v], the force on
\* obj1 due to obj2.
calculate_gravitational_force(W, o1, o2) ==
    ForceOver(VecSub(Position(W, o2), Position(W, o1)),
              W.bodies[o1].mass, W.bodies[o2].mass)

\* The kinetic energy as it would be without the factor 0.5.
calculate_kinetic_energy_unhalved(W, o) ==
    DecMul(W.bodies[o].mass, dot_product(Velocity(W, o), Velocity(W, o)))

\* calculate_kinetic_energy(obj) = Decimal('0.5') * mass * (v . v)
calculate_kinetic_energy(W, o) ==
    DecMul(DecMul(Dec(5, -1), W.bodies[o].mass),
           dot_product(Velocity(W, o), Velocity(W, o)))

\* The potential energy as it would be with zero distance tolerated.
PotentialAtTolerant(distance, m1, m2) ==
    IF ~distance.done THEN [status |-> "hang", v |-> Zero]
    ELSE IF distance.v = Zero THEN [status |-> "ok", v |-> Zero]
    ELSE [status |-> "ok",
          v |-> DecDiv(DecMul(DecMul(DecNeg(GRAVITATIONAL_CONSTANT), m1), m2),
                       distance.v)]

\* calculate_gravitational_potential_energy once the distance is known.
PotentialAt(distance, m1, m2) ==
    IF ~distance.done THEN [status |-> "hang", v |-> Zero]
    ELSE IF distance.v = Zero THEN [status |-> "ValueError", v |-> Zero]
    ELSE [status |-> "ok",
          v |-> DecDiv(DecMul(DecMul(DecNeg(GRAVITATIONAL_CONSTANT), m1), m2),
                       distance.v)]

\* calculate_gravitational_potential_energy(obj1, obj2): [status, v].
calculate_gravitational_potential_energy(W, o1, o2) ==
    PotentialAt(magnitude(VecSub(Position(W, o2), Position(W, o1))),
                W.bodies[o1].mass, W.bodies[o2].mass)

\* The pairs (i, j), i < j, of 1..n in the order of the nested loops.
RECURSIVE PairsFrom(_, _, _)
PairsFrom(i, j, n) ==
    IF i >= n THEN <<>>
    ELSE IF j > n THEN PairsFrom(i + 1, i + 2, n)
    ELSE <<(<<i, j>>)>> \o PairsFrom(i, j + 1, n)

Pairs(n) == PairsFrom(1, 2, n)

(***************************************************************************)
(* The integration step.  An operator that can raise gives [status, w]:    *)
(* w is the state the call leaves behind, also when it raises part way.    *)
(***************************************************************************)
reset_accelerations_skipped(W) == W

\* reset_accelerations(): a fresh zero vector for every registered body.
reset_accelerations(W) ==
    [W EXCEPT !.bodies =
        [o \in DOMAIN W.bodies |->
            IF \E i \in 1..Len(W.objects) : W.objects[i] = o
            THEN [W.bodies[o] EXCEPT !.acceleration = ZeroVector]
            ELSE W.bodies[o]]]

\* The reaction as it would be with the sign of the update reversed.
ReactAdding(W, o2, acc, m1, m2) ==
    IF m2 = Zero THEN [status |-> "ArithmeticError", w |-> W]
    ELSE [status |-> "ok",
          w |-> [W EXCEPT !.bodies[o2].acceleration =
                    VecAdd(W.bodies[o2].acceleration,
                           VecDiv(VecScale(acc, m1), m2))]]

\* obj2.acceleration -= acceleration * obj1.mass / obj2.mass
React(W, o2, acc, m1, m2) ==
    IF m2 = Zero THEN [status |-> "ArithmeticError", w |-> W]
    ELSE [status |-> "ok",
          w |-> [W EXCEPT !.bodies[o2].acceleration =
                    VecSub(W.bodies[o2].acceleration,
                           VecDiv(VecScale(acc, m1), m2))]]

\* obj1.acceleration += acceleration, then the reaction on obj2.
Accelerate(W, o1, o2, acc) ==
    React([W EXCEPT !.bodies[o1].acceleration =
               VecAdd(W.bodies[o1].acceleration, acc)],
          o2, acc, W.bodies[o1].mass, W.bodies[o2].mass)

ApplyForceUndivided(W, o1, o2, force) ==
    IF force.status # "ok" THEN [status |-> force.status, w |-> W]
    ELSE IF W.bodies[o1].mass = Zero
    THEN [status |-> "ArithmeticError", w |-> W]
    ELSE Accelerate(W, o1, o2, force.v)

\* acceleration = force / obj1.mass
ApplyForce(W, o1, o2, force) ==
    IF force.status # "ok" THEN [status |-> force.status, w |-> W]
    ELSE IF W.bodies[o1].mass = Zero
    THEN [status |-> "ArithmeticError", w |-> W]
    ELSE Accelerate(W, o1, o2, VecDiv(force.v, W.bodies[o1].mass))

\* One pass of the inner loop body of apply_forces for the pair (o1, o2).
ApplyPair(W, o1, o2) ==
    ApplyForce(W, o1, o2, calculate_gravitational_force(W, o1, o2))

RECURSIVE ApplyPairs(_, _, _)
ApplyRest(r, pairs, k) ==
    IF r.status # "ok" THEN r ELSE ApplyPairs(r.w, pairs, k + 1)

ApplyPairs(W, pairs, k) ==
    IF k > Len(pairs) THEN [status |-> "ok", w |-> W]
    ELSE ApplyRest(ApplyPair(W, W.objects[pairs[k][1]], W.objects[pairs[k][2]]),
                   pairs, k)

\* apply_forces()
apply_forces(W) ==
    ApplyPairs(reset_accelerations(W), Pairs(Len(W.objects)), 1)

\* update_velocities(): v += a * dt, in place, body after body.
RECURSIVE update_velocities_from(_, _)
update_velocities_from(W, k) ==
    IF k > Len(W.objects) THEN W
    ELSE update_velocities_from(
             [W EXCEPT !.vecs[W.bodies[W.objects[k]].velocity] =
                 VecAdd(Velocity(W, W.objects[k]),
                        VecScale(W.bodies[W.objects[k]].acceleration,
                                 W.time_step))],
             k + 1)

update_velocities(W) == update_velocities_from(W, 1)

\* update_positions(): x += v * dt, in place, body after body.
RECURSIVE update_positions_from(_, _)
update_positions_from(W, k) ==
    IF k > Len(W.objects) THEN W
    ELSE update_positions_from(
             [W EXCEPT !.vecs[W.bodies[W.objects[k]].position] =
                 VecAdd(Position(W, W.objects[k]),
                        VecScale(Velocity(W, W.objects[k]), W.time_step))],
             k + 1)

update_positions(W) == update_positions_from(W, 1)

\* The kinetic-energy loop of calculate_total_energy.
RECURSIVE TotalKE(_, _, _)
TotalKE(W, k, total_ke) ==
    IF k > Len(W.objects) THEN total_ke
    ELSE TotalKE(W, k + 1,
                 DecAdd(total_ke, calculate_kinetic_energy(W, W.objects[k])))

\* The pairwise potential-energy loop: [status, v].
RECURSIVE TotalPE(_, _, _, _)
AddPE(W, pairs, k, total_pe, pe) ==
    IF pe.status # "ok" THEN pe
    ELSE TotalPE(W, pairs, k + 1, DecAdd(total_pe, pe.v))

TotalPE(W, pairs, k, total_pe) ==
    IF k > Len(pairs) THEN [status |-> "ok", v |-> total_pe]
    ELSE AddPE(W, pairs, k, total_pe,
               calculate_gravitational_potential_energy(
                   W, W.objects[pairs[k][1]], W.objects[pairs[k][2]]))

\* calculate_total_energy as it would be without the potential-energy term.
StoreKineticOnly(W, total_ke, total_pe) ==
    IF total_pe.status # "ok" THEN [status |-> total_pe.status, w |-> W]
    ELSE [status |-> "ok", w |-> [W EXCEPT !.total_energy = total_ke]]

\* self.total_energy = total_ke + total_pe
StoreEnergy(W, total_ke, total_pe) ==
    IF total_pe.status # "ok" THEN [status |-> total_pe.status, w |-> W]
    ELSE [status |-> "ok",
          w |-> [W EXCEPT !.total_energy = DecAdd(total_ke, total_pe.v)]]

\* calculate_total_energy(): [status, w]; the value returned is
\* w.total_energy.
calculate_total_energy(W) ==
    StoreEnergy(W, TotalKE(W, 1, Zero),
                TotalPE(W, Pairs(Len(W.objects)), 1, Zero))

\* The clock as it would run with the sign of the increment reversed.
TickBack(W) == [W EXCEPT !.current_time = DecSub(W.current_time, W.time_step)]

\* current_time += time_step
Tick(W) == [W EXCEPT !.current_time = DecAdd(W.current_time, W.time_step)]

Ticked(e) == [status |-> e.status, w |-> e.w, ticked |-> TRUE]

\* step() as it would be with update_positions called before
\* update_velocities.
IntegratePositionsFirst(f) ==
    IF f.status # "ok" THEN [status |-> f.status, w |-> f.w, ticked |-> FALSE]
    ELSE Ticked(calculate_total_energy(
                    Tick(update_velocities(update_positions(f.w)))))

\* step() after apply_forces.
Integrate(f) ==
    IF f.status # "ok" THEN [status |-> f.status, w |-> f.w, ticked |-> FALSE]
    ELSE Ticked(calculate_total_energy(
                    Tick(update_positions(update_velocities(f.w)))))

\* step() as it would be if it recorded its clock in the history.
Recorded(s) ==
    IF s.status # "ok" THEN s
    ELSE [s EXCEPT !.w.simulation_history = Append(@, s.w.current_time)]

step_recording(W) == Recorded(Integrate(apply_forces(W)))

\* step(): [status, w, ticked], ticked telling whether the call got as
\* far as advancing current_time.
step(W) == Integrate(apply_forces(W))

FloatVectorFlat(v) == <<Float(v.x), Float(v.y), Float(v.x)>>

\* (float(v.x), float(v.y), float(v.z))
FloatVector(v) == <<Float(v.x), Float(v.y), Float(v.z)>>

\* The snapshot as it would be with the time read before the step's advance.
SnapshotAtStart(W) ==
    [time |-> Float(DecSub(W.current_time, W.time_step)),
     total_energy |-> Float(W.total_energy),
     objects |-> [i \in 1..Len(W.objects) |->
         [name |-> W.bodies[W.objects[i]].name,
          position |-> FloatVector(Position(W, W.objects[i])),
          velocity |-> FloatVector(Velocity(W, W.objects[i])),
          acceleration |-> FloatVector(W.bodies[W.objects[i]].acceleration)]]]

\* The snapshot run_simulation records after a step.
Snapshot(W) ==
    [time |-> Float(W.current_time),
     total_energy |-> Float(W.total_energy),
     objects |-> [i \in 1..Len(W.objects) |->
         [name |-> W.bodies[W.objects[i]].name,
          position |-> FloatVector(Position(W, W.objects[i])),
          velocity |-> FloatVector(Velocity(W, W.objects[i])),
          acceleration |-> FloatVector(W.bodies[W.objects[i]].acceleration)]]]

\* The loop of run_simulation with `left` steps to go: [status, w, history,
\* done, ticked], history the local list, done the steps that returned and
\* ticked those that advanced current_time.
RECURSIVE RunLoop(_, _, _, _)
RunNext(s, left, history, done) ==
    IF s.status # "ok"
    THEN [status |-> s.status, w |-> s.w, history |-> history, done |-> done,
          ticked |-> IF s.ticked THEN done + 1 ELSE done]
    ELSE RunLoop(s.w, left - 1, Append(history, Snapshot(s.w)), done + 1)

RunLoop(W, left, history, done) ==
    IF left = 0
    THEN [status |-> "ok", w |-> W, history |-> history, done |-> done,
          ticked |-> done]
    ELSE RunNext(step(W), left, history, done)

\* run_simulation's last statements as they would be with an assignment in
\* place of extend.
ExtendReplacing(r) ==
    IF r.status # "ok" THEN r
    ELSE [r EXCEPT !.w.simulation_history = r.history]

\* self.simulation_history.extend(history), reached when no step raised.
Extend(r) ==
    IF r.status # "ok" THEN r
    ELSE [r EXCEPT !.w.simulation_history = r.w.simulation_history \o r.history]

\* run_simulation as it would be returning self.simulation_history.
Merged(r) ==
    IF r.status # "ok" THEN r ELSE [r EXCEPT !.history = r.w.simulation_history]

run_simulation_merged(W, steps) == Merged(Extend(RunLoop(W, steps, <<>>, 0)))

\* run_simulation(steps)
run_simulation(W, steps) == Extend(RunLoop(W, steps, <<>>, 0))

\* reset_simulation as it would be without the assignment to current_time.
reset_simulation_keeping_time(W) ==
    reset_accelerations([W EXCEPT !.total_energy = Zero,
                                  !.simulation_history = <<>>])

\* reset_simulation()
reset_simulation(W) ==
    reset_accelerations([W EXCEPT !.current_time = Zero,
                                  !.total_energy = Zero,
                                  !.simulation_history = <<>>])

(***************************************************************************)
(* DecimalPhysicsEngine (decimal_physics_controller/core.py).  An engine   *)
(* keeps its precision attribute; its arithmetic is rounded by the decimal *)
(* context, whose precision is the argument p of the operators below.  The *)
(* operands are short enough for the exact results to fit an integer.      *)
(***************************************************************************)
\* n * 10^e rounded half-even to p significant digits.
RoundAt(p, n, e) == RoundTo(Sign(n), AbsInt(n), e, FALSE, p)

ExactSum(a, b, e) == a.c * Pow10(a.e - e) + b.c * Pow10(b.e - e)

\* a + b, a * b and a ** 2 in a context of precision p.
AddAt(p, a, b) == RoundAt(p, ExactSum(a, b, Min(a.e, b.e)), Min(a.e, b.e))
MulAt(p, a, b) == RoundAt(p, a.c * b.c, a.e + b.e)
SquareAt(p, a) == RoundAt(p, a.c * a.c, a.e + a.e)

\* dx0 + (dv0 * dt) + (Decimal('0.5') * da * (dt ** 2))
kinematic_position(p, x0, v0, a, t) ==
    AddAt(p, AddAt(p, x0, MulAt(p, v0, t)),
          MulAt(p, MulAt(p, Dec(5, -1), a), SquareAt(p, t)))

(***************************************************************************)
(* SchrodingerCatSimulation and its ThermodynamicSystem.  Of a step, the   *)
(* model keeps what the clock, the history and is_cat_alive() depend on:   *)
(* the pattern the AI controller picks (an input of the step), the power   *)
(* mode it selects, the heating, the clock and the snapshot.               *)
(***************************************************************************)
heat_capacity == Dec(17950, 0)
initial_temperature == Dec(29315, -2)
power_min == Dec(80, 0)
power_max == Dec(230, 0)
critical_temperature == Dec(31515, -2)
thirst_limit == Dec(21600, 0)
hunger_limit == Dec(25200, 0)

Patterns == {"fractal", "strobe", "random"}

\* SchrodingerCatSimulation.__init__
NewSim ==
    [time |-> Zero, dt |-> Dec(1, 0), history |-> <<>>,
     temperature |-> initial_temperature, time_elapsed |-> Zero,
     current_power |-> power_min]

DecGeq(a, b) == ~DecLt(a, b)

\* thermodynamics.set_power_mode(mode)
set_power_mode(s, mode) ==
    [s EXCEPT !.current_power =
        IF mode = "stasis" THEN power_min
        ELSE IF mode = "strobe" THEN power_max
        ELSE DecDiv(DecAdd(power_min, power_max), Dec(2, 0))]

\* thermodynamics.evolve(dt)
evolve(s, dt) ==
    [s EXCEPT !.temperature =
                 DecAdd(s.temperature,
                        DecDiv(DecMul(s.current_power, dt), heat_capacity)),
              !.time_elapsed = DecAdd(s.time_elapsed, dt)]

\* thermodynamics.is_cat_alive()
is_cat_alive(s) ==
    /\ ~DecGeq(s.temperature, critical_temperature)
    /\ ~DecGeq(s.time_elapsed, thirst_limit)
    /\ ~DecGeq(s.time_elapsed, hunger_limit)

\* get_complete_state(): the entries of the snapshot that the clock and
\* the thermodynamics determine.
get_complete_state(s) ==
    [time_seconds |-> Float(s.time),
     temperature_kelvin |-> Float(s.temperature),
     is_alive |-> is_cat_alive(s)]

\* The power mode step() selects for the pattern of the AI controller.
PowerMode(pattern) ==
    IF pattern = "fractal" THEN "stasis"
    ELSE IF pattern = "strobe" THEN "strobe"
    ELSE "normal"

Heated(s, pattern) == evolve(set_power_mode(s, PowerMode(pattern)), s.dt)

Timed(s) == [s EXCEPT !.time = DecAdd(s.time, s.dt)]

Recording(s) ==
    [s EXCEPT !.history = Append(s.history, get_complete_state(s))]

\* SchrodingerCatSimulation.step(), the AI controller picking `pattern`.
sim_step(s, pattern) == Recording(Timed(Heated(s, pattern)))

\* int(x): truncation towards zero.
Truncate(d) ==
    IF d.e >= 0 THEN d.c * Pow10(d.e)
    ELSE Sign(d.c) * (AbsInt(d.c) \div Pow10(-d.e))

\* int(duration_seconds / float(self.dt))
RunSteps(s, duration) == Truncate(DecDiv(duration, s.dt))

\* The loop of run() as it would be without the test of is_cat_alive().
RECURSIVE sim_run_unchecked(_, _, _, _)
sim_run_unchecked(s, k, steps, patterns) ==
    IF k > steps THEN s
    ELSE sim_run_unchecked(sim_step(s, patterns[k]), k + 1, steps, patterns)

\* The loop of run() from its k-th iteration: for _ in range(steps), with
\* patterns[k] the pattern picked in iteration k.
RECURSIVE sim_run(_, _, _, _)
sim_run(s, k, steps, patterns) ==
    IF k > steps \/ ~is_cat_alive(s) THEN s
    ELSE sim_run(sim_step(s, patterns[k]), k + 1, steps, patterns)

\* The package before any of it is used: no engine, the context precision
\* the controller module set, a simulation as constructed.
InitPackage ==
    /\ engines = <<>>
    /\ context_prec = Prec
    /\ sim = NewSim
(***************************************************************************)
(* The caller.  Three PhysicsObject instances: "a" and "b" one distance   *)
(* 5 apart, and a second body named "a" placed where "b" starts.           *)
(***************************************************************************)
InitBodies ==
    <<[name |-> "a", mass |-> Dec(3, 10), position |-> 1, velocity |-> 2,
       acceleration |-> ZeroVector],
      [name |-> "b", mass |-> Dec(1, 10), position |-> 3, velocity |-> 4,
       acceleration |-> ZeroVector],
      [name |-> "a", mass |-> Dec(2, 10), position |-> 5, velocity |-> 6,
       acceleration |-> ZeroVector]>>

InitVecs ==
    <<Vector3D(Zero, Zero, Zero),
      Vector3D(Zero, Zero, Zero),
      Vector3D(Dec(3, 0), Dec(4, 0), Zero),
      Vector3D(Zero, Zero, Dec(1, 0)),
      Vector3D(Dec(3, 0), Dec(4, 0), Zero),
      Vector3D(Dec(1, 0), Zero, Zero)>>

\* The names remove_object is called with ("c" is never registered).
NameInputs == {"a", "b", "c"}

\* The values set_time_step is called with, as Decimal(str(value)): -0.01
\* and 1E-05.
TimeStepInputs == {Dec(-1, -2), Dec(1, -5)}

\* The step counts run_simulation is called with.
StepInputs == {0, 1, 2}

Call(op, arg, status, ret) ==
    [op |-> op, arg |-> arg, status |-> status, ret |-> ret]

\* __init__: an empty controller with the default time step 0.01.
Init ==
    /\ bodies = InitBodies
    /\ vecs = InitVecs
    /\ objects = <<>>
    /\ time_step = Dec(1, -2)
    /\ current_time = Zero
    /\ total_energy = Zero
    /\ simulation_history = <<>>
    /\ result = Call("init", 0, "ok", <<>>)
    /\ completed = 0
    /\ ticks = <<>>
    /\ calls = 0
    /\ InitPackage

\* The state a call leaves behind.
Install(W) ==
    /\ bodies' = W.bodies
    /\ vecs' = W.vecs
    /\ objects' = W.objects
    /\ time_step' = W.time_step
    /\ current_time' = W.current_time
    /\ total_energy' = W.total_energy
    /\ simulation_history' = W.simulation_history

\* A call that never returns leaves a controller that takes no more calls.
Running == result.status # "hang" /\ calls < MaxCalls

\* add_object as it would be without the membership test: a plain
\* assignment to self.objects[obj.name].
AddObjectOverwriting(o) ==
    /\ Running
    /\ result' = Call("add_object", o, "ok", <<>>)
    /\ objects' = IF bodies[o].name \in Names(objects)
                  THEN [objects EXCEPT ![IndexOf(objects, bodies[o].name)] = o]
                  ELSE Append(objects, o)
    /\ calls' = calls + 1
    /\ UNCHANGED package
    /\ UNCHANGED <<bodies, vecs, time_step, current_time, total_energy,
                   simulation_history, completed, ticks>>

\* add_object(obj), obj one of the caller's bodies.
AddObject(o) ==
    /\ Running
    /\ IF bodies[o].name \in Names(objects)
       THEN /\ result' = Call("add_object", o, "ValueError", <<>>)
            /\ UNCHANGED objects
       ELSE /\ result' = Call("add_object", o, "ok", <<>>)
            /\ objects' = Append(objects, o)
    /\ calls' = calls + 1
    /\ UNCHANGED package
    /\ UNCHANGED <<bodies, vecs, time_step, current_time, total_energy,
                   simulation_history, completed, ticks>>

\* remove_object as it would be with self.objects.pop(name, None).
RemoveObjectQuiet(name) ==
    /\ Running
    /\ result' = Call("remove_object", name, "ok", <<>>)
    /\ objects' = IF name \in Names(objects)
                  THEN RemoveAt(objects, IndexOf(objects, name))
                  ELSE objects
    /\ calls' = calls + 1
    /\ UNCHANGED package
    /\ UNCHANGED <<bodies, vecs, time_step, current_time, total_energy,
                   simulation_history, completed, ticks>>

\* remove_object(name)
RemoveObject(name) ==
    /\ Running
    /\ IF name \notin Names(objects)
       THEN /\ result' = Call("remove_object", name, "ValueError", <<>>)
            /\ UNCHANGED objects
       ELSE /\ result' = Call("remove_object", name, "ok", <<>>)
            /\ objects' = RemoveAt(objects, IndexOf(objects, name))
    /\ calls' = calls + 1
    /\ UNCHANGED package
    /\ UNCHANGED <<bodies, vecs, time_step, current_time, total_energy,
                   simulation_history, completed, ticks>>

\* set_time_step as it would be if it restarted the clock.
SetTimeStepRescaling(value) ==
    /\ Running
    /\ time_step' = value
    /\ current_time' = Zero
    /\ result' = Call("set_time_step", value, "ok", <<>>)
    /\ calls' = calls + 1
    /\ UNCHANGED package
    /\ UNCHANGED <<bodies, vecs, objects, total_energy,
                   simulation_history, completed, ticks>>

\* set_time_step(value)
SetTimeStep(value) ==
    /\ Running
    /\ time_step' = value
    /\ result' = Call("set_time_step", value, "ok", <<>>)
    /\ calls' = calls + 1
    /\ UNCHANGED package
    /\ UNCHANGED <<bodies, vecs, objects, current_time, total_energy,
                   simulation_history, completed, ticks>>

StepReturns(s) ==
    /\ Install(s.w)
    /\ result' = Call("step", 0, s.status, <<>>)
    /\ completed' = IF s.status = "ok" THEN completed + 1 ELSE completed
    /\ ticks' = IF s.ticked THEN Append(ticks, time_step) ELSE ticks

\* step()
Step ==
    /\ Running
    /\ StepReturns(step(World))
    /\ calls' = calls + 1
    /\ UNCHANGED package

RunReturns(steps, r) ==
    /\ Install(r.w)
    /\ result' = Call("run_simulation", steps, r.status,
                      IF r.status = "ok" THEN r.history ELSE <<>>)
    /\ completed' = completed + r.done
    /\ ticks' = ticks \o [k \in 1..r.ticked |-> time_step]

\* run_simulation(steps)
RunSimulation(steps) ==
    /\ Running
    /\ RunReturns(steps, run_simulation(World, steps))
    /\ calls' = calls + 1
    /\ UNCHANGED package

EnergyReturns(r) ==
    /\ Install(r.w)
    /\ result' = Call("calculate_total_energy", 0, r.status,
                      IF r.status = "ok" THEN r.w.total_energy ELSE Zero)

\* calculate_total_energy()
CalculateTotalEnergy ==
    /\ Running
    /\ EnergyReturns(calculate_total_energy(World))
    /\ calls' = calls + 1
    /\ UNCHANGED package
    /\ UNCHANGED <<completed, ticks>>

\* reset_simulation()
ResetSimulation ==
    /\ Running
    /\ Install(reset_simulation(World))
    /\ result' = Call("reset_simulation", 0, "ok", <<>>)
    /\ ticks' = <<>>
    /\ calls' = calls + 1
    /\ UNCHANGED package
    /\ UNCHANGED completed

Next ==
    \/ \E o \in DOMAIN bodies : AddObject(o)
    \/ \E name \in NameInputs : RemoveObject(name)
    \/ \E value \in TimeStepInputs : SetTimeStep(value)
    \/ Step
    \/ \E steps \in StepInputs : RunSimulation(steps)
    \/ CalculateTotalEnergy
    \/ ResetSimulation

Spec == Init /\ [][Next]_vars


(***************************************************************************)
(* A second caller, for the operations on bodies and vectors themselves:   *)
(* it constructs two bodies "a" and "b" from the inputs below and calls    *)
(* the force, energy and vector methods on them.                           *)
(***************************************************************************)
\* PhysicsObject(name, mass, position, velocity): __post_init__ converts the
\* mass to Decimal and tests the types of the vectors, nothing else; the
\* acceleration is the default zero vector.
PhysicsObject(name, mass, position, velocity) ==
    [name |-> name, mass |-> mass, position |-> position,
     velocity |-> velocity, acceleration |-> ZeroVector]

\* The masses body "b" is constructed with; body "a" has mass 2.
MassInputs == {Zero, Dec(-3, 0), Dec(2, 0), Dec(15, 0)}

\* The positions body "b" is constructed at; body "a" is at the origin.
PositionInputs ==
    {ZeroVector, Vector3D(Dec(3, 0), Dec(4, 0), Zero),
     Vector3D(Dec(1, 0), Dec(2, 0), Dec(2, 0))}

\* The velocities body "a" is constructed with; body "b" is at rest.
VelocityInputs ==
    {Vector3D(Dec(3, 5), Dec(4, 5), Zero),
     Vector3D(Dec(2, -1), Dec(3, -1), Dec(6, -1))}

InitObjects ==
    /\ \E m \in MassInputs, p \in PositionInputs, v \in VelocityInputs :
          /\ bodies = <<PhysicsObject("a", Dec(2, 0), 1, 2),
                        PhysicsObject("b", m, 3, 4)>>
          /\ vecs = <<ZeroVector, v, p, ZeroVector>>
    /\ objects = <<>>
    /\ time_step = Dec(1, -2)
    /\ current_time = Zero
    /\ total_energy = Zero
    /\ simulation_history = <<>>
    /\ result = Call("init", 0, "ok", <<>>)
    /\ completed = 0
    /\ ticks = <<>>
    /\ calls = 0
    /\ InitPackage

\* A call of a method that only computes: nothing but its outcome changes.
Computes(op, arg, status, ret) ==
    /\ result' = Call(op, arg, status, ret)
    /\ calls' = calls + 1
    /\ UNCHANGED package
    /\ UNCHANGED <<bodies, vecs, objects, time_step, current_time,
                   total_energy, simulation_history, completed, ticks>>

ForceReturns(o1, o2, f) ==
    Computes("calculate_gravitational_force", <<o1, o2>>, f.status, f.v)

\* calculate_gravitational_force(obj1, obj2)
CalculateGravitationalForce(o1, o2) ==
    /\ Running
    /\ ForceReturns(o1, o2, calculate_gravitational_force(World, o1, o2))

PotentialReturns(o1, o2, pe) ==
    Computes("calculate_gravitational_potential_energy", <<o1, o2>>,
             pe.status, pe.v)

\* calculate_gravitational_potential_energy(obj1, obj2)
CalculateGravitationalPotentialEnergy(o1, o2) ==
    /\ Running
    /\ PotentialReturns(o1, o2,
           calculate_gravitational_potential_energy(World, o1, o2))

NormalizeReturns(k, n) == Computes("normalize", k, n.status, n.v)

\* vecs[k].normalize()
Normalize(k) ==
    /\ Running
    /\ NormalizeReturns(k, normalize(vecs[k]))

MagnitudeReturns(k, m) ==
    Computes("magnitude", k, IF m.done THEN "ok" ELSE "hang", m.v)

\* vecs[k].magnitude()
Magnitude(k) ==
    /\ Running
    /\ MagnitudeReturns(k, magnitude(vecs[k]))

ApplyForcesReturns(r) ==
    /\ Install(r.w)
    /\ result' = Call("apply_forces", 0, r.status, <<>>)

\* apply_forces()
ApplyForces ==
    /\ Running
    /\ ApplyForcesReturns(apply_forces(World))
    /\ calls' = calls + 1
    /\ UNCHANGED package
    /\ UNCHANGED <<completed, ticks>>

NextObjects ==
    \/ \E o \in DOMAIN bodies : AddObject(o)
    \/ \E o1 \in DOMAIN bodies, o2 \in DOMAIN bodies :
          o1 # o2 /\ CalculateGravitationalForce(o1, o2)
    \/ \E o1 \in DOMAIN bodies, o2 \in DOMAIN bodies :
          o1 # o2 /\ CalculateGravitationalPotentialEnergy(o1, o2)
    \/ \E k \in DOMAIN vecs : Normalize(k)
    \/ \E k \in DOMAIN vecs : Magnitude(k)
    \/ ApplyForces

SpecObjects == InitObjects /\ [][NextObjects]_vars

(***************************************************************************)
(* A third caller: an isolated pair of bodies driven through the           *)
(* controller's operations.  The pair is either the benchmark's (1E24 kg   *)
(* at rest at the origin, 5E23 kg at (1E9, 0, 0) moving at (0, 1000, 0))   *)
(* a close one (1E12 kg each, at rest one metre apart), or a meeting one.   *)
(***************************************************************************)
BenchmarkPair ==
    [bodies |-> <<PhysicsObject("a", Dec(1, 24), 1, 2),
                  PhysicsObject("b", Dec(5, 23), 3, 4)>>,
     vecs |-> <<ZeroVector, ZeroVector,
                Vector3D(Dec(1, 9), Zero, Zero),
                Vector3D(Zero, Dec(1, 3), Zero)>>]

ClosePair ==
    [bodies |-> <<PhysicsObject("a", Dec(1, 12), 1, 2),
                  PhysicsObject("b", Dec(1, 12), 3, 4)>>,
     vecs |-> <<ZeroVector, ZeroVector,
                Vector3D(Dec(1, 0), Zero, Zero), ZeroVector>>]

\* Two bodies of 1E-60 kg, "a" moving at (1, 0, 0) towards "b" at rest at
\* (0.02, 0, 0): they meet after two steps of 0.01.
MeetingPair ==
    [bodies |-> <<PhysicsObject("a", Dec(1, -60), 1, 2),
                  PhysicsObject("b", Dec(1, -60), 3, 4)>>,
     vecs |-> <<ZeroVector, Vector3D(Dec(1, 0), Zero, Zero),
                Vector3D(Dec(2, -2), Zero, Zero), ZeroVector>>]

PairInputs == {BenchmarkPair, ClosePair, MeetingPair}

InitPairs ==
    /\ \E s \in PairInputs : bodies = s.bodies /\ vecs = s.vecs
    /\ objects = <<>>
    /\ time_step = Dec(1, -2)
    /\ current_time = Zero
    /\ total_energy = Zero
    /\ simulation_history = <<>>
    /\ result = Call("init", 0, "ok", <<>>)
    /\ completed = 0
    /\ ticks = <<>>
    /\ calls = 0
    /\ InitPackage

SpecPairs == InitPairs /\ [][Next]_vars

(***************************************************************************)
(* A fourth caller, for the order of the objects mapping: three bodies of  *)
(* different names that are added, removed and stepped.                    *)
(***************************************************************************)
MappingBodies ==
    <<PhysicsObject("a", Dec(3, 10), 1, 2),
      PhysicsObject("b", Dec(1, 10), 3, 4),
      PhysicsObject("c", Dec(2, 10), 5, 6)>>

MappingVecs ==
    <<ZeroVector, ZeroVector,
      Vector3D(Dec(3, 0), Dec(4, 0), Zero), Vector3D(Zero, Zero, Dec(1, 0)),
      Vector3D(Zero, Zero, Dec(12, 0)), Vector3D(Dec(1, 0), Zero, Zero)>>

InitMapping ==
    /\ bodies = MappingBodies
    /\ vecs = MappingVecs
    /\ objects = <<>>
    /\ time_step = Dec(1, -2)
    /\ current_time = Zero
    /\ total_energy = Zero
    /\ simulation_history = <<>>
    /\ result = Call("init", 0, "ok", <<>>)
    /\ completed = 0
    /\ ticks = <<>>
    /\ calls = 0
    /\ InitPackage

NextMapping ==
    \/ \E o \in DOMAIN bodies : AddObject(o)
    \/ \E name \in NameInputs : RemoveObject(name)
    \/ Step
    \/ CalculateTotalEnergy

SpecMapping == InitMapping /\ [][NextMapping]_vars

(***************************************************************************)
(* A fifth caller, for the lookups: the three bodies of the mapping are    *)
(* added, removed, stepped and looked up by name.                          *)
(***************************************************************************)
\* self.objects.get(name): the registered body of that name, 0 for None.
get_object(W, name) ==
    IF \E i \in 1..Len(W.objects) : W.bodies[W.objects[i]].name = name
    THEN W.objects[CHOOSE i \in 1..Len(W.objects) :
                       W.bodies[W.objects[i]].name = name]
    ELSE 0

\* The dictionary get_object_state returns for body o.
ObjectState(W, o) ==
    [name |-> W.bodies[o].name,
     mass |-> Float(W.bodies[o].mass),
     position |-> FloatVector(Position(W, o)),
     velocity |-> FloatVector(Velocity(W, o)),
     acceleration |-> FloatVector(W.bodies[o].acceleration),
     kinetic_energy |-> Float(calculate_kinetic_energy(W, o))]

\* get_object(name)
GetObject(name) ==
    /\ Running
    /\ Computes("get_object", name, "ok", get_object(World, name))

\* get_object_state as it would be returning None for an absent name.
GetObjectStateOptional(name) ==
    /\ Running
    /\ IF get_object(World, name) = 0
       THEN Computes("get_object_state", name, "ok", 0)
       ELSE Computes("get_object_state", name, "ok",
                     ObjectState(World, get_object(World, name)))

\* get_object_state(name)
GetObjectState(name) ==
    /\ Running
    /\ IF get_object(World, name) = 0
       THEN Computes("get_object_state", name, "ValueError", <<>>)
       ELSE Computes("get_object_state", name, "ok",
                     ObjectState(World, get_object(World, name)))

NextLookup ==
    \/ \E o \in DOMAIN bodies : AddObject(o)
    \/ \E name \in NameInputs : RemoveObject(name)
    \/ Step
    \/ \E name \in NameInputs : GetObject(name)
    \/ \E name \in NameInputs : GetObjectState(name)

SpecLookup == InitMapping /\ [][NextLookup]_vars

(***************************************************************************)
(* A sixth caller, who builds two bodies from one Vector3D instance: "a"   *)
(* and "b" are 5 apart and are both given the vector v as their velocity.  *)
(***************************************************************************)
SharedBodies ==
    <<PhysicsObject("a", Dec(3, 10), 1, 2),
      PhysicsObject("b", Dec(1, 10), 3, 2)>>

SharedVecs == <<ZeroVector, ZeroVector, Vector3D(Dec(3, 0), Dec(4, 0), Zero)>>

InitShared ==
    /\ bodies = SharedBodies
    /\ vecs = SharedVecs
    /\ objects = <<>>
    /\ time_step = Dec(1, -2)
    /\ current_time = Zero
    /\ total_energy = Zero
    /\ simulation_history = <<>>
    /\ result = Call("init", 0, "ok", <<>>)
    /\ completed = 0
    /\ ticks = <<>>
    /\ calls = 0
    /\ InitPackage

SpecShared == InitShared /\ [][Next]_vars

(***************************************************************************)
(* A seventh caller, for the square root: _decimal_sqrt is called with the *)
(* arguments below and magnitude() on the caller's vectors.                *)
(***************************************************************************)
\* The largest coefficient of an argument.
MaxCoefficient == 24

\* a * (a + 1.5) for a = 2 * 10^(prec - 1) units of 10^-(prec - 5), the
\* stopping distance: 400000000.00000000000000000000000000000000000000003
\* at the source's precision.
NearFourE8 ==
    Dec(4 * Pow10(Prec - 1) + 3, (Prec - 1) - 2 * (Prec - TolGap))

\* The arguments: -2 .. MaxCoefficient scaled by a power of ten, and the
\* one above.
SqrtInputs ==
    {Dec(c, e) : c \in (-2)..MaxCoefficient, e \in {-9, -4, 0, 1, 8}}
        \cup {NearFourE8}

\* The caller's vectors: (0, 0, 0), (3, 4, 0) and (20000, 54, 0).
SqrtVecs ==
    <<ZeroVector,
      Vector3D(Dec(3, 0), Dec(4, 0), Zero),
      Vector3D(Dec(2, 4), Dec(54, 0), Zero)>>

InitSqrt ==
    /\ bodies = <<>>
    /\ vecs = SqrtVecs
    /\ objects = <<>>
    /\ time_step = Dec(1, -2)
    /\ current_time = Zero
    /\ total_energy = Zero
    /\ simulation_history = <<>>
    /\ result = Call("init", 0, "ok", <<>>)
    /\ completed = 0
    /\ ticks = <<>>
    /\ calls = 0
    /\ InitPackage

SqrtReturns(value, r) ==
    Computes("_decimal_sqrt", value, IF r.done THEN "ok" ELSE "hang", r.v)

\* _decimal_sqrt as it would be without the test for a negative argument:
\* the iteration from a negative value is not followed, 0 stands for it.
DecimalSqrtUnchecked(value) ==
    /\ Running
    /\ IF DecLt(value, Zero)
       THEN Computes("_decimal_sqrt", value, "ok", Zero)
       ELSE SqrtReturns(value, decimal_sqrt(value))

\* Vector3D._decimal_sqrt(value)
DecimalSqrt(value) ==
    /\ Running
    /\ IF DecLt(value, Zero)
       THEN Computes("_decimal_sqrt", value, "ValueError", Zero)
       ELSE SqrtReturns(value, decimal_sqrt(value))

NextSqrt ==
    \/ \E value \in SqrtInputs : DecimalSqrt(value)
    \/ \E k \in DOMAIN vecs : Magnitude(k)

SpecSqrt == InitSqrt /\ [][NextSqrt]_vars

(***************************************************************************)
(* Engines: DecimalPhysicsEngine instances constructed one after another   *)
(* in one process, their precision changed with set_precision, and         *)
(* kinematic_position computed by any of them.                             *)
(***************************************************************************)
\* Engines constructed over one behaviour.
MaxEngines == 2

\* The precisions asked for (50 by default in the source).
PrecisionInputs == {2, 4, Prec}

\* x0 of kinematic_position; v0, a and t are 2.5, 3 and 2.
StartInputs == {Dec(12345, -4), Dec(5, 0)}

\* DecimalPhysicsEngine(precision)
NewEngine(precision) ==
    /\ Running
    /\ Len(engines) < MaxEngines
    /\ engines' = Append(engines, [precision |-> precision])
    /\ context_prec' = precision
    /\ result' = Call("DecimalPhysicsEngine", precision, "ok",
                      Len(engines) + 1)
    /\ calls' = calls + 1
    /\ UNCHANGED <<bodies, vecs, objects, time_step, current_time,
                   total_energy, simulation_history, completed, ticks, sim>>

\* engines[i].set_precision(prec)
SetPrecision(i, prec) ==
    /\ Running
    /\ engines' = [engines EXCEPT ![i].precision = prec]
    /\ context_prec' = prec
    /\ result' = Call("set_precision", <<i, prec>>, "ok", <<>>)
    /\ calls' = calls + 1
    /\ UNCHANGED <<bodies, vecs, objects, time_step, current_time,
                   total_energy, simulation_history, completed, ticks, sim>>

\* engines[i].kinematic_position(x0, '2.5', '3', '2')
KinematicPosition(i, x0) ==
    /\ Running
    /\ Computes("kinematic_position", <<i, x0>>, "ok",
                kinematic_position(context_prec, x0, Dec(25, -1),
                                   Dec(3, 0), Dec(2, 0)))

NextEngines ==
    \/ \E precision \in PrecisionInputs : NewEngine(precision)
    \/ \E i \in DOMAIN engines, prec \in PrecisionInputs :
          SetPrecision(i, prec)
    \/ \E i \in DOMAIN engines, x0 \in StartInputs :
          KinematicPosition(i, x0)

SpecEngines == Init /\ [][NextEngines]_vars

(***************************************************************************)
(* The cat: a SchrodingerCatSimulation stepped and run by its caller, who  *)
(* also reaches its thermodynamics as the tests do: evolve() with a long   *)
(* dt stands for the hours of heating that take the box to the critical    *)
(* temperature.                                                            *)
(***************************************************************************)
\* duration_seconds of run()
DurationInputs == {Dec(-1, 0), Dec(1, 0), Dec(25, -1)}

\* dt of thermodynamics.evolve()
EvolveInputs == {Dec(4934, 0), Dec(21600, 0)}

SimReturns(op, arg, s, ret) ==
    /\ sim' = s
    /\ result' = Call(op, arg, "ok", ret)
    /\ calls' = calls + 1
    /\ UNCHANGED <<bodies, vecs, objects, time_step, current_time,
                   total_energy, simulation_history, completed, ticks,
                   engines, context_prec>>

\* sim.step()
SimStep(pattern) ==
    /\ Running
    /\ SimReturns("sim.step", 0, sim_step(sim, pattern), <<>>)

SimRunReturns(duration, s) == SimReturns("sim.run", duration, s, s.history)

\* sim.run(duration)
SimRun(duration, patterns) ==
    /\ Running
    /\ SimRunReturns(duration,
                   sim_run(sim, 1, RunSteps(sim, duration), patterns))

\* sim.thermodynamics.evolve(dt)
Evolve(dt) ==
    /\ Running
    /\ SimReturns("evolve", dt, evolve(sim, dt), <<>>)

NextCat ==
    \/ \E pattern \in Patterns : SimStep(pattern)
    \/ \E duration \in DurationInputs :
          \E patterns \in [1..RunSteps(sim, duration) -> Patterns] :
              SimRun(duration, patterns)
    \/ \E dt \in EvolveInputs : Evolve(dt)

SpecCat == Init /\ [][NextCat]_vars

(***************************************************************************)
(* Properties.  `result` holds the last call, so a step of the behaviour   *)
(* is a call of the operation result' names.                               *)
(***************************************************************************)
\* The controller's fields and the heap they refer to.
Fields == <<bodies, vecs, objects, time_step, current_time, total_energy,
            simulation_history>>

\* This step of the behaviour is a call of op.
Called(op) == calls' = calls + 1 /\ result'.op = op

\* This step of the behaviour is a call of op that returned.
Returned(op) == Called(op) /\ result'.status = "ok"

\* The last call was a call of op that returned.
LastReturned(op) == result.op = op /\ result.status = "ok"

\* C1: add_object with a body whose name is already a key of the objects
\* mapping raises an error and changes nothing: the mapping holds the
\* original body under that name at its original place in the insertion
\* order, and no other field of the controller is modified.
AddObjectDuplicateRaises ==
    [][(Called("add_object") /\ bodies[result'.arg].name \in Names(objects))
        => (result'.status = "ValueError" /\ UNCHANGED Fields)]_vars

\* add_object was refused for a body other than the registered one of the
\* same name.
AddObjectDuplicateSeen ==
    /\ result.op = "add_object"
    /\ result.status = "ValueError"
    /\ \E i \in 1..Len(objects) :
          /\ bodies[objects[i]].name = bodies[result.arg].name
          /\ objects[i] # result.arg

\* C2: remove_object with a name that is not registered raises an error and
\* leaves the objects mapping and every other field unchanged; with a
\* registered name it deletes exactly that entry and no other.
RemoveObjectContract ==
    [][Called("remove_object") =>
        IF result'.arg \in Names(objects)
        THEN /\ result'.status = "ok"
             /\ objects' = SelectSeq(objects,
                               LAMBDA o : bodies[o].name # result'.arg)
             /\ Len(objects') = Len(objects) - 1
             /\ UNCHANGED <<bodies, vecs, time_step, current_time,
                            total_energy, simulation_history>>
        ELSE /\ result'.status = "ValueError"
             /\ UNCHANGED Fields]_vars

\* remove_object was refused on a controller that holds bodies.
RemoveObjectAbsentSeen ==
    /\ result.op = "remove_object"
    /\ result.status = "ValueError"
    /\ result.arg \notin Names(objects)
    /\ Len(objects) = 2

\* The clock after k advances from t by dt: k times current_time += time_step.
RECURSIVE ClockAfter(_, _, _)
ClockAfter(t, dt, k) ==
    IF k = 0 THEN t ELSE ClockAfter(DecAdd(t, dt), dt, k - 1)

\* The controller after k steps from W.
RECURSIVE WorldAfter(_, _)
WorldAfter(W, k) == IF k = 0 THEN W ELSE WorldAfter(step(W).w, k - 1)

\* float(x) is x: the conversion drops no digit.
Representable(x) == Float(x) = x

\* a - b on floats.
FloatSub(a, b) == Float(DecSub(a, b))

\* The time fields t of a returned run are strictly increasing and spaced by
\* dt, the first being dt after the clock value `before`.
EvenlySpaced(t, before, dt) ==
    /\ \A k \in 2..Len(t) : DecLt(t[k - 1].time, t[k].time)
    /\ \A k \in 2..Len(t) : FloatSub(t[k].time, t[k - 1].time) = Float(dt)
    /\ Len(t) > 0 => t[1].time = Float(DecAdd(before, dt))

\* C3 as stated: for every steps >= 0, run_simulation(steps) on a controller
\* whose bodies never coincide returns exactly `steps` snapshots whose time
\* fields are strictly increasing, each consecutive pair differing by the
\* configured time_step, the first being the pre-call current_time plus
\* time_step.
RunSimulationTimesEvenlySpaced ==
    [][Returned("run_simulation") =>
        /\ Len(result'.ret) = result'.arg
        /\ EvenlySpaced(result'.ret, current_time, time_step)]_vars

\* C3 as amended: run_simulation(steps) that returns gives exactly `steps`
\* snapshots, the k-th with time float(c_k), c_k the pre-call current_time
\* advanced k times by time_step; the times never decrease when
\* time_step >= 0, and they are strictly increasing and spaced by time_step
\* when time_step > 0 and float() drops no digit of time_step and the c_k.
RunSimulationTimes ==
    [][Returned("run_simulation") =>
        /\ Len(result'.ret) = result'.arg
        /\ \A k \in 1..result'.arg :
              result'.ret[k].time = Float(ClockAfter(current_time, time_step, k))
        /\ ~DecLt(time_step, Zero) =>
              \A k \in 2..result'.arg :
                  ~DecLt(result'.ret[k].time, result'.ret[k - 1].time)
        /\ (/\ DecLt(Zero, time_step)
            /\ Representable(time_step)
            /\ \A k \in 0..result'.arg :
                  Representable(ClockAfter(current_time, time_step, k)))
           => EvenlySpaced(result'.ret, current_time, time_step)]_vars

\* run_simulation(2) returned on a two-body system, after an earlier advance
\* of the clock.
RunSimulationTimesSeen ==
    /\ LastReturned("run_simulation")
    /\ result.arg = 2
    /\ Len(objects) = 2
    /\ Len(ticks) > 2
    /\ DecLt(result.ret[1].time, result.ret[2].time)

\* C4: run_simulation(n) returns only the n snapshots produced by this call,
\* and when it returns simulation_history is the history from before the
\* call followed by exactly those n snapshots in step order, across any
\* number of successive run_simulation calls.
RunSimulationExtendsHistory ==
    [][Returned("run_simulation") =>
        /\ Len(result'.ret) = result'.arg
        /\ \A k \in 1..result'.arg :
              result'.ret[k] = Snapshot(WorldAfter(World, k))
        /\ simulation_history' = simulation_history \o result'.ret]_vars

\* A run_simulation call returned its own snapshots on a controller whose
\* history already held those of an earlier call.
RunSimulationExtendsHistorySeen ==
    /\ LastReturned("run_simulation")
    /\ result.arg > 0
    /\ Len(simulation_history) > Len(result.ret)
    /\ Len(objects) > 0

\* The accelerations apply_forces computes from the positions before a step.
ForcesBefore == apply_forces(World).w

\* C5: a completed step() uses the fixed order apply_forces,
\* update_velocities, update_positions, advance current_time, recompute
\* total_energy: for every body the new velocity is v + a*dt with a computed
\* from the pre-step positions, and the new position is x + v_new*dt, the
\* position being advanced with the already-updated velocity.
StepOrder ==
    [][Returned("step") =>
        /\ objects' = objects
        /\ \A i \in 1..Len(objects) :
              /\ bodies'[objects[i]].acceleration
                     = ForcesBefore.bodies[objects[i]].acceleration
              /\ vecs'[bodies'[objects[i]].velocity]
                     = VecAdd(Velocity(World, objects[i]),
                              VecScale(bodies'[objects[i]].acceleration,
                                       time_step))
              /\ vecs'[bodies'[objects[i]].position]
                     = VecAdd(Position(World, objects[i]),
                              VecScale(vecs'[bodies'[objects[i]].velocity],
                                       time_step))
        /\ current_time' = DecAdd(current_time, time_step)
        /\ calculate_total_energy(World').status = "ok"
        /\ total_energy' = calculate_total_energy(World').w.total_energy]_vars

\* A second step() returned on two bodies that attract each other: the
\* velocities it started from and the accelerations it computed are not zero.
StepOrderSeen ==
    /\ LastReturned("step")
    /\ Len(objects) = 2
    /\ Len(ticks) > 1
    /\ \A i \in 1..2 : bodies[objects[i]].acceleration # ZeroVector
    /\ \A i \in 1..2 : Velocity(World, objects[i]).x # Zero

\* The sum of the kinetic energies of the registered bodies and of the
\* potential energies of their unordered pairs, for at most two bodies.
EnergySum ==
    IF Len(objects) = 0 THEN Zero
    ELSE IF Len(objects) = 1
    THEN DecAdd(calculate_kinetic_energy(World, objects[1]), Zero)
    ELSE DecAdd(DecAdd(calculate_kinetic_energy(World, objects[1]),
                       calculate_kinetic_energy(World, objects[2])),
                calculate_gravitational_potential_energy(
                    World, objects[1], objects[2]).v)

\* C6: calculate_total_energy returns the sum of the kinetic energies of all
\* registered bodies plus the potential energies of all unordered pairs (0
\* for an empty controller) and stores that same value in total_energy;
\* after every completed step() the cached total_energy is this sum on the
\* positions and velocities the step left.
TotalEnergyIsSum ==
    /\ Len(objects) <= 2
    /\ LastReturned("calculate_total_energy") =>
          result.ret = EnergySum /\ total_energy = EnergySum
    /\ LastReturned("step") => total_energy = EnergySum
    /\ (LastReturned("run_simulation") /\ result.arg > 0) =>
          total_energy = EnergySum

\* calculate_total_energy returned for two moving bodies whose kinetic and
\* potential energies each count in the total.
TotalEnergyIsSumSeen ==
    /\ LastReturned("calculate_total_energy")
    /\ Len(objects) = 2
    /\ result.ret # Zero
    /\ calculate_kinetic_energy(World, objects[1]) # Zero
    /\ calculate_kinetic_energy(World, objects[2]) # Zero
    /\ result.ret # DecAdd(calculate_kinetic_energy(World, objects[1]),
                           calculate_kinetic_energy(World, objects[2]))

\* The sum of the first n entries of a sequence of time steps, added in
\* order as current_time += time_step adds them.
RECURSIVE TickSum(_, _)
TickSum(s, n) == IF n = 0 THEN Zero ELSE DecAdd(TickSum(s, n - 1), s[n])

\* C7 as stated: after any sequence of controller operations, current_time
\* equals time_step multiplied by the number of completed steps, exactly.
ClockIsTimeStepTimesSteps ==
    current_time = DecMul(time_step, Dec(completed, 0))

\* C7 as amended: current_time is the sum, added in order, of the time_step
\* values in effect at each advance of the clock since construction or the
\* last reset_simulation; it is time_step multiplied by the number of those
\* advances when each was made with the present time_step and the product
\* has no more digits than the context precision.
ClockIsSumOfTimeSteps ==
    /\ current_time = TickSum(ticks, Len(ticks))
    /\ (/\ \A k \in 1..Len(ticks) : ticks[k] = time_step
        /\ AbsInt(time_step.c) * Len(ticks) < Pow10(Prec))
       => current_time = DecMul(time_step, Dec(Len(ticks), 0))

\* The clock was advanced twice with different time steps.
ClockIsSumOfTimeStepsSeen ==
    /\ Len(ticks) = 2
    /\ ticks[1] # ticks[2]
    /\ completed = 2
    /\ current_time = DecAdd(ticks[1], ticks[2])

\* C8 as stated: current_time is monotonically non-decreasing: no operation
\* ever makes current_time smaller than it was, and each completed step
\* advances it by exactly one time_step.
ClockNeverDecreases ==
    [][/\ ~DecLt(current_time', current_time)
       /\ Returned("step") => current_time' = DecAdd(current_time, time_step)
      ]_vars

\* C8 as amended: current_time never decreases except by reset_simulation,
\* which sets it to 0, and by a step taken while time_step is negative; each
\* completed step adds exactly one time_step to it, and no other operation
\* changes it.
ClockAdvances ==
    [][/\ Called("reset_simulation") => current_time' = Zero
       /\ Returned("step") => current_time' = DecAdd(current_time, time_step)
       /\ Returned("run_simulation") =>
             current_time' = ClockAfter(current_time, time_step, result'.arg)
       /\ (~Called("reset_simulation") /\ ~DecLt(time_step, Zero)) =>
             ~DecLt(current_time', current_time)
       /\ (\/ Called("add_object") \/ Called("remove_object")
           \/ Called("set_time_step") \/ Called("calculate_total_energy"))
          => current_time' = current_time]_vars

\* reset_simulation put back a clock that three completed steps had
\* advanced.
ClockAdvancesSeen ==
    /\ result.op = "reset_simulation"
    /\ calls = 3
    /\ completed = 3
    /\ current_time = Zero

\* C9: set_time_step(value) replaces time_step and changes nothing else:
\* current_time, total_energy, simulation_history, the set of bodies and
\* their vectors are unchanged, and every later step advances current_time
\* by the new value.
SetTimeStepReplacesTimeStep ==
    [][/\ Called("set_time_step") =>
             /\ result'.status = "ok"
             /\ time_step' = result'.arg
             /\ UNCHANGED <<bodies, vecs, objects, current_time, total_energy,
                            simulation_history>>
       /\ ~Called("set_time_step") => time_step' = time_step
       /\ Returned("step") => current_time' = DecAdd(current_time, time_step)
      ]_vars

\* A step returned on a controller that holds a body, after set_time_step
\* replaced the default time step on a clock that had already advanced.
SetTimeStepReplacesTimeStepSeen ==
    /\ LastReturned("step")
    /\ Len(objects) > 0
    /\ Len(ticks) = 2
    /\ ticks[1] = Dec(1, -2)
    /\ ticks[2] = Dec(-1, -2)
    /\ time_step = Dec(-1, -2)
    /\ current_time = Zero

IsPrefix(s, t) == Len(s) <= Len(t) /\ SubSeq(t, 1, Len(s)) = s

\* C10 as stated: simulation_history is append-only: after any sequence of
\* operations, the history as it was at any earlier point is a prefix of the
\* current history.
HistoryAppendOnly ==
    [][IsPrefix(simulation_history, simulation_history')]_vars

\* C10 as amended: simulation_history is append-only except for
\* reset_simulation, which empties it: every other operation leaves the
\* earlier history as a prefix of the current one.
HistoryAppendOnlyUntilReset ==
    [][/\ Called("reset_simulation") => simulation_history' = <<>>
       /\ ~Called("reset_simulation") =>
             IsPrefix(simulation_history, simulation_history')]_vars

\* reset_simulation emptied a history that two run_simulation(2) calls had
\* filled.
HistoryAppendOnlyUntilResetSeen ==
    /\ result.op = "reset_simulation"
    /\ calls = 3
    /\ completed = 4
    /\ simulation_history = <<>>

VecNeg(v) == Vector3D(DecNeg(v.x), DecNeg(v.y), DecNeg(v.z))

\* C11: for any two bodies a and b with non-zero masses and distinct
\* positions, calculate_gravitational_force(a, b) and
\* calculate_gravitational_force(b, a) are equal in magnitude and exactly
\* opposite: each component of one is the negation of the same component of
\* the other.
ForcesAntiparallel ==
    (/\ result.op = "calculate_gravitational_force"
     /\ result.status = "ok"
     /\ bodies[result.arg[1]].mass # Zero
     /\ bodies[result.arg[2]].mass # Zero)
    => /\ calculate_gravitational_force(
              World, result.arg[2], result.arg[1]).status = "ok"
       /\ result.ret = VecNeg(calculate_gravitational_force(
                                  World, result.arg[2], result.arg[1]).v)

\* The force on the first registered body due to the second.
PairForce == calculate_gravitational_force(World, objects[1], objects[2]).v

Mass(i) == bodies[objects[i]].mass

Acceleration(i) == bodies[objects[i]].acceleration

\* The sum of mass * acceleration over two registered bodies.
WeightedSum ==
    VecAdd(VecScale(Acceleration(1), Mass(1)),
           VecScale(Acceleration(2), Mass(2)))

\* |s| <= |f| * 10^-(Prec - 2)
Within(s, f) ==
    ~DecLt(DecMul(DecAbs(f), Dec(1, -(Prec - 2))), DecAbs(s))

VecWithin(s, f) ==
    Within(s.x, f.x) /\ Within(s.y, f.y) /\ Within(s.z, f.z)

\* C12 as stated: apply_forces sets each body's acceleration to the sum over
\* the other bodies of the force on it divided by its own mass: for every
\* pair i < j it adds F(i,j)/mass_i to body i and subtracts exactly
\* F(i,j)/mass_j from body j, so the mass-weighted sum of all accelerations
\* after apply_forces is the zero vector.
ApplyForcesExactReaction ==
    (LastReturned("apply_forces") /\ Len(objects) = 2) =>
        /\ Acceleration(1) = VecDiv(PairForce, Mass(1))
        /\ Acceleration(2) = VecNeg(VecDiv(PairForce, Mass(2)))
        /\ WeightedSum = ZeroVector

\* C12 as amended: for every pair i < j apply_forces adds F(i,j)/mass_i,
\* rounded to the context precision, to body i and subtracts that rounded
\* acceleration times mass_i divided by mass_j from body j; the value
\* subtracted is F(i,j)/mass_j, and the mass-weighted sum of the
\* accelerations is zero, only up to the rounding of these operations (for
\* two bodies, each within 10^-(precision-2) of the force, relatively).  A
\* body without a partner gets the zero vector.
ApplyForcesRoundedReaction ==
    LastReturned("apply_forces") =>
        /\ Len(objects) < 2 =>
              \A i \in 1..Len(objects) : Acceleration(i) = ZeroVector
        /\ Len(objects) = 2 =>
              /\ Acceleration(1) = VecDiv(PairForce, Mass(1))
              /\ Acceleration(2)
                     = VecNeg(VecDiv(VecScale(Acceleration(1), Mass(1)),
                                     Mass(2)))
              /\ VecWithin(VecSub(VecScale(Acceleration(2), Mass(2)),
                                  VecNeg(PairForce)), PairForce)
              /\ VecWithin(WeightedSum, PairForce)

\* apply_forces returned for two bodies, and the reaction it gave the second
\* is not the force divided by that body's mass.
ApplyForcesRoundedReactionSeen ==
    /\ LastReturned("apply_forces")
    /\ Len(objects) = 2
    /\ Acceleration(1) # ZeroVector
    /\ Acceleration(2) # VecNeg(VecDiv(PairForce, Mass(2)))

\* The two bodies are at the same point.
SamePosition(o1, o2) == Position(World, o1) = Position(World, o2)

\* C13: zero distance is reported, never tolerated:
\* calculate_gravitational_force and calculate_gravitational_potential_energy
\* raise an error when the two bodies have identical positions, and
\* normalize() raises an error on the zero vector; none of them returns a
\* value in that case.
ZeroDistanceRaises ==
    /\ (/\ result.op \in {"calculate_gravitational_force",
                          "calculate_gravitational_potential_energy"}
        /\ SamePosition(result.arg[1], result.arg[2]))
       => result.status = "ValueError"
    /\ (result.op = "normalize" /\ vecs[result.arg] = ZeroVector)
       => result.status = "ValueError"

\* calculate_gravitational_potential_energy raised for two bodies that are
\* both at the origin.
ZeroDistanceRaisesSeen ==
    /\ result.op = "calculate_gravitational_potential_energy"
    /\ result.status = "ValueError"
    /\ SamePosition(1, 2)
    /\ bodies[1].mass # Zero
    /\ bodies[2].mass # Zero

\* C14: step() on a controller holding exactly one body leaves that body's
\* acceleration zero and its velocity unchanged, changes its position by
\* exactly velocity*time_step, and caches
\* total_energy = 0.5*mass*(velocity . velocity).
SingleBodyStep ==
    [][(Returned("step") /\ Len(objects) = 1) =>
        /\ bodies'[objects[1]].acceleration = ZeroVector
        /\ vecs'[bodies[objects[1]].velocity] = Velocity(World, objects[1])
        /\ vecs'[bodies[objects[1]].position]
               = VecAdd(Position(World, objects[1]),
                        VecScale(Velocity(World, objects[1]), time_step))
        /\ total_energy'
               = DecMul(DecMul(Dec(5, -1), bodies[objects[1]].mass),
                        dot_product(Velocity(World, objects[1]),
                                    Velocity(World, objects[1])))]_vars

\* step() returned on a controller whose only body moves: its position is
\* no longer the one it was constructed at and the cached energy is not 0.
SingleBodyStepSeen ==
    /\ LastReturned("step")
    /\ Len(objects) = 1
    /\ Velocity(World, objects[1]) # ZeroVector
    /\ Position(World, objects[1]) # InitVecs[bodies[objects[1]].position]
    /\ total_energy # Zero
    /\ bodies[objects[1]].acceleration = ZeroVector

\* C15: every body has mass > 0 at all times: constructing a body with zero
\* or negative mass fails with an InvalidMass error, so no body with
\* non-positive mass can be registered in a controller or reach
\* apply_forces.
RegisteredMassPositive ==
    \A i \in 1..Len(objects) : DecLt(Zero, Mass(i))

\* The pair the bodies were constructed as (masses never change).
Pair == CHOOSE s \in PairInputs : s.bodies[1].mass = bodies[1].mass

\* The total energy of the registered pair before any step.
InitialEnergy ==
    calculate_total_energy(
        [bodies |-> Pair.bodies, vecs |-> Pair.vecs, objects |-> objects,
         time_step |-> Dec(1, -2), current_time |-> Zero,
         total_energy |-> Zero, simulation_history |-> <<>>]).w.total_energy

\* |e - e0| <= 0.001 * |e0|
WithinTenthPercent(e, e0) ==
    ~DecLt(DecMul(Dec(1, -3), DecAbs(e0)), DecAbs(DecSub(e, e0)))

\* The pair is registered, the last call computed the total energy, and
\* every step so far (at most 1000) was taken with time_step 0.01.
SteppedPair ==
    /\ Len(objects) = 2
    /\ \/ result.op \in {"step", "calculate_total_energy"}
       \/ result.op = "run_simulation" /\ result.arg >= 1
    /\ result.status = "ok"
    /\ Len(ticks) <= 1000
    /\ \A k \in 1..Len(ticks) : ticks[k] = Dec(1, -2)

SquaredLength(v) ==
    DecAdd(DecAdd(DecMul(v.x, v.x), DecMul(v.y, v.y)), DecMul(v.z, v.z))

\* The non-negative numbers n whose square is the squared length of v,
\* among the lengths the constructed vectors have.
Roots(v) ==
    {n \in {Zero, Dec(3, 0), Dec(5, 0), Dec(7, -1), Dec(5, 5)} :
        DecMul(n, n) = SquaredLength(v)}

\* |m - n| < 10^-(precision - 5)
NearRoot(m, n) == DecLt(DecAbs(DecSub(m, n)), Dec(1, -(Prec - 5)))

\* C17: magnitude() of (3,4,0) equals 5 within 10^-(precision-5); for a
\* vector whose sum of squared components is a perfect square n^2,
\* magnitude() returns a non-negative value within that tolerance of n.
MagnitudeOfPerfectSquare ==
    result.op = "magnitude"
    => \A n \in Roots(vecs[result.arg]) :
          /\ result.status = "ok"
          /\ ~DecLt(result.ret, Zero)
          /\ NearRoot(result.ret, n)
          /\ vecs[result.arg] = Vector3D(Dec(3, 0), Dec(4, 0), Zero)
                => NearRoot(result.ret, Dec(5, 0))

MagnitudeOfPerfectSquareSeen ==
    /\ result.op = "magnitude"
    /\ result.status = "ok"
    /\ vecs[result.arg] = Vector3D(Dec(3, 0), Dec(4, 0), Zero)
    /\ Roots(vecs[result.arg]) = {Dec(5, 0)}

\* The three components of v as floats.
Floats(v) == <<Float(v.x), Float(v.y), Float(v.z)>>

\* Entry e of a snapshot describes body o of controller W.
DescribesBody(e, W, o) ==
    /\ e.name = W.bodies[o].name
    /\ e.position = Floats(W.vecs[W.bodies[o].position])
    /\ e.velocity = Floats(W.vecs[W.bodies[o].velocity])
    /\ e.acceleration = Floats(W.bodies[o].acceleration)

\* Snapshot s describes controller W: its clock, its energy and exactly its
\* registered bodies.
Describes(s, W) ==
    /\ s.time = Float(W.current_time)
    /\ s.total_energy = Float(W.total_energy)
    /\ Len(s.objects) = Len(W.objects)
    /\ \A i \in 1..Len(W.objects) : DescribesBody(s.objects[i], W, W.objects[i])

\* C18: each snapshot recorded by run_simulation holds the time, the
\* total_energy and, for every body registered at that step and only those,
\* its position, velocity and acceleration as of the end of that step (as
\* floats); a snapshot already in history is not changed by later steps,
\* add_object or remove_object.
SnapshotContents ==
    [][/\ Returned("run_simulation") =>
             /\ \A k \in 1..result'.arg :
                   Describes(result'.ret[k], WorldAfter(World, k))
             /\ result'.arg > 0 => Describes(result'.ret[result'.arg], World')
       /\ ~Called("reset_simulation") =>
             /\ Len(simulation_history') >= Len(simulation_history)
             /\ \A k \in 1..Len(simulation_history) :
                   simulation_history'[k] = simulation_history[k]]_vars

\* A run on two bodies returned while the history still holds the snapshot
\* of a run made when only one body was registered.
SnapshotContentsSeen ==
    /\ LastReturned("run_simulation")
    /\ result.arg > 0
    /\ Len(objects) = 2
    /\ Len(simulation_history) > Len(result.ret)
    /\ Len(simulation_history[1].objects) = 1
    /\ result.ret[1].objects[1].acceleration # <<Zero, Zero, Zero>>

\* The registered bodies other than the one called name, in their order.
Others(objs, name) == SelectSeq(objs, LAMBDA o : bodies[o].name # name)

\* What the pair (i, j) of the mapping adds to the acceleration of its
\* first body, and what it takes from that of its second.
ForceOn(i, j) ==
    VecDiv(calculate_gravitational_force(World, objects[i], objects[j]).v,
           Mass(i))

ReactionOn(i, j) == VecDiv(VecScale(ForceOn(i, j), Mass(i)), Mass(j))

\* The accelerations of two and of three bodies when the pairs are visited
\* in the order (1,2), (1,3), (2,3) of the mapping.
PairOrder2(acc) ==
    /\ acc[objects[1]].acceleration = VecAdd(ZeroVector, ForceOn(1, 2))
    /\ acc[objects[2]].acceleration = VecSub(ZeroVector, ReactionOn(1, 2))

PairOrder3(acc) ==
    /\ acc[objects[1]].acceleration =
          VecAdd(VecAdd(ZeroVector, ForceOn(1, 2)), ForceOn(1, 3))
    /\ acc[objects[2]].acceleration =
          VecAdd(VecSub(ZeroVector, ReactionOn(1, 2)), ForceOn(2, 3))
    /\ acc[objects[3]].acceleration =
          VecSub(VecSub(ZeroVector, ReactionOn(1, 3)), ReactionOn(2, 3))

\* C19: the objects mapping preserves insertion order: a successful
\* add_object puts the body last (also one that was removed before), a
\* successful remove_object keeps the others in their order, no other call
\* changes the order, and the pairs i<j of apply_forces are visited in that
\* order.
InsertionOrder ==
    [][/\ Returned("add_object") => objects' = Append(objects, result'.arg)
       /\ Returned("remove_object") => objects' = Others(objects, result'.arg)
       /\ ~(Returned("add_object") \/ Returned("remove_object"))
             => objects' = objects
       /\ (Returned("step") /\ Len(objects) = 2) => PairOrder2(bodies')
       /\ (Returned("step") /\ Len(objects) = 3) => PairOrder3(bodies')]_vars

\* The first of three registered bodies was removed and the other two are
\* still in the order of their add_object calls.
InsertionOrderSeen ==
    /\ LastReturned("remove_object")
    /\ result.arg = "a"
    /\ objects = <<2, 3>>

\* Body o is as it was constructed: only steps move a body, so these are
\* its position and velocity from before the first step.
AsConstructed(o) ==
    /\ Position(World, o) = InitVecs[bodies[o].position]
    /\ Velocity(World, o) = InitVecs[bodies[o].velocity]
    /\ bodies[o].acceleration = ZeroVector

\* C20: reset_simulation() resets the simulation to its initial state:
\* after it current_time, total_energy, simulation_history and every
\* registered body's position, velocity and acceleration equal their values
\* from before the first step.
ResetRestoresInitialState ==
    result.op = "reset_simulation"
    => /\ current_time = Zero
       /\ total_energy = Zero
       /\ simulation_history = <<>>
       /\ \A i \in 1..Len(objects) : AsConstructed(objects[i])

\* C24: current_time advances only on completed steps: if a step() call
\* raises an error, current_time has the value it had before the call.
ClockKeptWhenStepRaises ==
    [][(Called("step") /\ result'.status \in {"ValueError", "ArithmeticError"})
        => current_time' = current_time]_vars

\* This step of the behaviour looks up a name that is not registered.
LooksUpAbsent(op) == Called(op) /\ result'.arg \notin Names(objects)

\* C21 as stated: get_object(name) and get_object_state(name) with a name
\* that is not registered raise instead of returning a value, and change no
\* controller state.
LookupAbsentRaises ==
    [][(LooksUpAbsent("get_object") \/ LooksUpAbsent("get_object_state"))
        => (result'.status = "ValueError" /\ UNCHANGED Fields)]_vars

\* C21 as amended: get_object_state(name) with a name that is not
\* registered raises; get_object(name) returns None for it, and the
\* registered body of that name otherwise; neither changes the controller.
LookupAbsent ==
    [][/\ LooksUpAbsent("get_object_state") => result'.status = "ValueError"
       /\ LooksUpAbsent("get_object") =>
             (result'.status = "ok" /\ result'.ret = 0)
       /\ (Called("get_object") /\ ~LooksUpAbsent("get_object")) =>
             /\ result'.status = "ok"
             /\ \E i \in 1..Len(objects) : result'.ret = objects[i]
             /\ bodies[result'.ret].name = result'.arg
       /\ (Called("get_object_state") /\ ~LooksUpAbsent("get_object_state")) =>
             (result'.status = "ok" /\ result'.ret.name = result'.arg)
       /\ (Called("get_object") \/ Called("get_object_state")) =>
             UNCHANGED Fields]_vars

\* A name that was removed again was looked up with both methods' outcomes:
\* here get_object_state raised while another body is still registered.
LookupAbsentSeen ==
    /\ result.op = "get_object_state"
    /\ result.status = "ValueError"
    /\ result.arg = "a"
    /\ objects = <<2>>

\* Body o moved in this step as a body that owns its vectors does: its
\* velocity grew by its own acceleration times dt, its position by its new
\* velocity times dt.
MovedAlone(o) ==
    /\ vecs'[bodies[o].velocity] =
          VecAdd(Velocity(World, o),
                 VecScale(bodies'[o].acceleration, time_step))
    /\ vecs'[bodies[o].position] =
          VecAdd(Position(World, o),
                 VecScale(vecs'[bodies[o].velocity], time_step))

\* C25: each body exclusively owns its position, velocity and acceleration
\* vectors: a controller operation that updates one body's vector never
\* changes a vector of another body, including when the caller built two
\* bodies from the same Vector3D instance.
ExclusiveVectors ==
    [][Returned("step") =>
          \A i \in 1..Len(objects) : MovedAlone(objects[i])]_vars

\* The controller with every body's acceleration replaced by (1, -2, 3).
Disturbed(W) ==
    [W EXCEPT !.bodies =
        [o \in DOMAIN W.bodies |->
            [W.bodies[o] EXCEPT !.acceleration =
                Vector3D(Dec(1, 0), Dec(-2, 0), Dec(3, 0))]]]

\* The accelerations of the registered bodies of W.
Accelerations(W) ==
    [i \in 1..Len(W.objects) |-> W.bodies[W.objects[i]].acceleration]

\* C26: apply_forces starts by resetting every acceleration to zero, so its
\* result depends only on masses and positions: calling it again gives the
\* same accelerations as calling it once, whatever the accelerations were
\* before.
ApplyForcesIdempotent ==
    [][Called("apply_forces") =>
          /\ apply_forces(World').status = result'.status
          /\ Accelerations(apply_forces(World').w) = Accelerations(World')
          /\ Accelerations(apply_forces(Disturbed(World)).w)
                = Accelerations(World')]_vars

\* apply_forces returned accelerations, other than zero, that a further
\* call leaves as they are.
ApplyForcesIdempotentSeen ==
    /\ LastReturned("apply_forces")
    /\ Len(objects) = 2
    /\ Acceleration(1) # ZeroVector
    /\ Accelerations(apply_forces(World).w) = Accelerations(World)
    /\ calls >= 4

\* C27: the square-root helper raises a domain error for a negative
\* argument and returns 0 for the argument 0, so magnitude() of the zero
\* vector returns 0 rather than failing.
SqrtDomain ==
    /\ (result.op = "_decimal_sqrt" /\ DecLt(result.arg, Zero))
          => result.status = "ValueError"
    /\ (result.op = "_decimal_sqrt" /\ result.arg = Zero)
          => (result.status = "ok" /\ result.ret = Zero)
    /\ (result.op = "_decimal_sqrt" /\ DecLt(Zero, result.arg))
          => result.status # "ValueError"
    /\ (result.op = "magnitude" /\ vecs[result.arg] = ZeroVector)
          => (result.status = "ok" /\ result.ret = Zero)

SqrtDomainSeen ==
    /\ result.op = "_decimal_sqrt"
    /\ result.arg = Dec(-2, -4)
    /\ result.status = "ValueError"

\* C28: magnitude() terminates for every vector: the Newton iteration of
\* the square-root helper reaches its stopping condition for every positive
\* argument (it never cycles between approximations), and what it returns
\* is positive.
SqrtTerminates ==
    /\ result.op = "magnitude" => result.status = "ok"
    /\ (result.op = "_decimal_sqrt" /\ DecLt(Zero, result.arg))
          => (result.status = "ok" /\ DecLt(Zero, result.ret))

\* Step k is the first step from W that raises, and it raises `status`.
FirstRaises(W, k, status) ==
    /\ \A j \in 1..(k - 1) : step(WorldAfter(W, j - 1)).status = "ok"
    /\ step(WorldAfter(W, k - 1)).status = status

\* C29: run_simulation extends simulation_history only after all requested
\* steps have completed: if step k of run_simulation(n) raises,
\* simulation_history is unchanged by the call while current_time and the
\* bodies keep the effects of the k-1 completed steps.
RunFailureKeepsCompletedSteps ==
    [][(Called("run_simulation")
        /\ result'.status \in {"ValueError", "ArithmeticError"})
       => /\ simulation_history' = simulation_history
          /\ \E k \in 1..result'.arg :
                /\ FirstRaises(World, k, result'.status)
                /\ current_time' = ClockAfter(current_time, time_step, k - 1)
                /\ vecs' = WorldAfter(World, k - 1).vecs]_vars

\* C30: a direct step() call never changes simulation_history: its length
\* is the number of steps executed by the run_simulation calls that
\* returned since construction or the last reset_simulation (every such
\* call adds its step count, a call that raises adds nothing, a reset
\* empties the history and no other call changes it), which can be less
\* than the number of completed steps.
HistoryCountsRunSteps ==
    [][/\ Called("step") => simulation_history' = simulation_history
       /\ Returned("run_simulation") =>
             Len(simulation_history') = Len(simulation_history) + result'.arg
       /\ (Called("run_simulation") /\ result'.status # "ok") =>
             simulation_history' = simulation_history
       /\ Called("reset_simulation") => simulation_history' = <<>>
       /\ ~(Called("run_simulation") \/ Called("reset_simulation")) =>
             simulation_history' = simulation_history
       /\ Len(simulation_history') <= Len(ticks')]_vars

\* A run of one step returned after direct steps: the history is shorter
\* than the number of completed steps.
HistoryCountsRunStepsSeen ==
    /\ LastReturned("run_simulation")
    /\ result.arg = 1
    /\ Len(simulation_history) = 1
    /\ Len(ticks) = 3
    /\ completed = 3

\* C22: an engine constructed with precision p computes with p significant
\* digits: whatever engines were constructed and whatever set_precision
\* calls were made, each engine's precision attribute is the precision of
\* the decimal context its calculations are rounded in, and what
\* kinematic_position returns is the value rounded to that many digits.
ComputedBy(i, x0, ret) ==
    ret = kinematic_position(engines[i].precision, x0, Dec(25, -1),
                             Dec(3, 0), Dec(2, 0))

EnginePrecisionInEffect ==
    /\ \A i \in DOMAIN engines : engines[i].precision = context_prec
    /\ result.op = "kinematic_position"
          => ComputedBy(result.arg[1], result.arg[2], result.ret)

\* The clock after n steps of dt from t.
RECURSIVE TimeAfter(_, _, _)
TimeAfter(t, dt, n) == IF n <= 0 THEN t ELSE TimeAfter(DecAdd(t, dt), dt, n - 1)

\* Snapshots appended by the call that has just returned.
Executed == Len(sim'.history) - Len(sim.history)

\* The call appended n snapshots after the ones there were and advanced
\* the clock by n * dt.
Advanced(n) ==
    /\ n >= 0
    /\ sim'.time = TimeAfter(sim.time, sim.dt, n)
    /\ \A k \in 1..Len(sim.history) : sim'.history[k] = sim.history[k]

\* A run of n executed steps out of `steps`: no more than asked for, none
\* when the cat was dead at the call, every step but the last left the cat
\* alive, and a run cut short ends with the cat dead.
RunChecked(n, steps) ==
    /\ n <= (IF steps < 0 THEN 0 ELSE steps)
    /\ ~is_cat_alive(sim) => n = 0
    /\ \A k \in 1..(n - 1) : sim'.history[Len(sim.history) + k].is_alive
    /\ n < steps => ~is_cat_alive(sim')

RunStep ==
    /\ (calls' # calls /\ result'.op = "sim.run")
          => (Advanced(Executed)
              /\ RunChecked(Executed, RunSteps(sim, result'.arg)))
    /\ (calls' # calls /\ result'.op = "sim.step") => Advanced(1)

\* C23: run(duration) performs at most int(duration / dt) steps, checks
\* is_cat_alive() before each one and stops at the first check that fails,
\* so that a run never advances the clock or the history of a dead cat;
\* each executed step advances time by dt and appends exactly one state to
\* history.
RunStopsAtDeath == [][RunStep]_vars

RunStopsAtDeathSeen ==
    /\ calls = 2
    /\ result.op = "sim.run"
    /\ result.arg = Dec(25, -1)
    /\ Len(sim.history) = 1
    /\ ~is_cat_alive(sim)
=============================================================================
